---- MODULE Spec2Model ----
(***************************************************************************)
(* Calimate (src/calimate.py): the MainWindow of a PyQt5 application.      *)
(* The model covers the result table (add_data_to_table, update_inst,      *)
(* import_table_from_csv) and the instrument discovery (find_inst,         *)
(* select_inst).  Strings are sequences of one-character strings, so that  *)
(* ==, the substring test `in`, strip, replace and split are computed.     *)
(***************************************************************************)
EXTENDS Integers, Sequences, FiniteSets, TLC

VARIABLES
    data_table,        \* self.data_table: the rows, each a sequence of 3 cells
    sortingEnabled,    \* data_table.isSortingEnabled()
    sortOrder,         \* the header's sort indicator order (section is 0)
    selected,          \* selectionModel().selectedRows(): 0 or the row's position
    inst_textbox,      \* self.inst_textbox: the detail pane
    status_bar,        \* self.status_bar: the message shown
    csv_file_name,     \* MainWindow.csv_file_name
    messages_count,    \* MainWindow.messages_count
    pc,                \* where the event thread is: idle, loading, scanning, crashed
    csv_file,          \* the records of the file the last import opened
    reader,            \* csv.reader(f): the records not read yet
    line_num,          \* reader.line_num
    import_outcome,    \* how the last import_table_from_csv call ended
    resources,         \* the tuple find_inst's for loop iterates over
    idx,               \* the position of that loop
    inst_list,         \* find_inst's local inst_list (rebound at line 184)
    faults,            \* per probed address, where the transport failed
    open_sessions,     \* the sessions the scan opened and never called close() on
    inst_id,           \* find_inst's local inst_id, a cell the lambdas share
    cmds,              \* find_inst's locals connect_cmd, id_cmd, close_cmd
    buttons,           \* self.inst_button_container: the controls, in order
    printed,           \* the console: what the last print statements wrote
    sent               \* the commands written to instruments, per address

tableVars == <<data_table, sortingEnabled, sortOrder, selected, inst_textbox,
               csv_file_name, messages_count, csv_file, reader, line_num,
               import_outcome>>
instVars  == <<resources, idx, inst_list, faults, open_sessions, inst_id, cmds,
               buttons, printed, sent>>
vars      == <<tableVars, instVars, status_bar, pc>>

----------------------------------------------------------------------------
(* Bounds *)

MaxRecords == 2      \* records in an imported CSV file
MaxResources == 2    \* addresses list_resources returns
MaxAdds == 2         \* direct add_data_to_table calls

----------------------------------------------------------------------------
(* Strings *)

\* The characters the model uses, in code point order.
Alphabet == <<"\n", " ", ",", "1", "2", ":", "A", "B", "F", "M", "P", "T", "V",
              "_", "a", "g", "i", "l", "n", "s">>

CharRank(c) == CHOOSE i \in 1..Len(Alphabet) : Alphabet[i] = c

RECURSIVE LexLess(_, _)
LexLess(a, b) ==
    IF b = << >> THEN FALSE
    ELSE IF a = << >> THEN TRUE
    ELSE IF Head(a) = Head(b) THEN LexLess(Tail(a), Tail(b))
    ELSE CharRank(Head(a)) < CharRank(Head(b))

\* Python's `sub in s` on strings.
Contains(s, sub) ==
    \E i \in 1..(Len(s) - Len(sub) + 1) : SubSeq(s, i, i + Len(sub) - 1) = sub

Whitespace == {" ", "\n"}

RECURSIVE LStrip(_)
LStrip(s) ==
    IF s # << >> /\ Head(s) \in Whitespace THEN LStrip(Tail(s)) ELSE s

RECURSIVE RStrip(_)
RStrip(s) ==
    IF s # << >> /\ s[Len(s)] \in Whitespace
    THEN RStrip(SubSeq(s, 1, Len(s) - 1)) ELSE s

\* str.strip()
Strip(s) == RStrip(LStrip(s))

\* str.replace(old, new) for a one-character old.
RECURSIVE Replace(_, _, _)
Replace(s, old, new) ==
    IF s = << >> THEN << >>
    ELSE (IF Head(s) = old THEN new ELSE <<Head(s)>>) \o Replace(Tail(s), old, new)

\* str.split(sep) for a one-character sep: always at least one field.
RECURSIVE Split(_, _)
Split(s, sep) ==
    IF \A i \in 1..Len(s) : s[i] # sep THEN <<s>>
    ELSE LET at == CHOOSE i \in 1..Len(s) :
                       s[i] = sep /\ \A j \in 1..(i - 1) : s[j] # sep
         IN <<SubSeq(s, 1, at - 1)>> \o Split(SubSeq(s, at + 1, Len(s)), sep)

Msg  == <<"M", "s", "g">>
Pass == <<"P", "a", "s", "s">>
Fail == <<"F", "a", "i", "l">>

----------------------------------------------------------------------------
(* The result table *)

columns == <<"Test", "Result", "Notes">>

\* self.columns.index(name), counted from 1.
ColumnIndex(name) == CHOOSE i \in 1..Len(columns) : columns[i] = name

NoItem == [has |-> FALSE, text |-> << >>, bg |-> "none"]

Item(text, bg) == [has |-> TRUE, text |-> text, bg |-> bg]

\* The first loop of add_data_to_table.
is_msg_row(row_data) == \E c \in 1..Len(row_data) : row_data[c] = Msg

MsgFields(row_data) == Cardinality({c \in 1..Len(row_data) : row_data[c] = Msg})

\* A slip: the Pass and Fail branches tested before the message branch.
ItemBackgroundResultFirst(col_index, data_item, msg) ==
    IF col_index = ColumnIndex("Result")
    THEN IF data_item = Pass THEN "pass"
         ELSE IF data_item = Fail THEN "fail"
         ELSE IF msg THEN "msg"
         ELSE "none"
    ELSE IF col_index = ColumnIndex("Notes") /\ msg THEN "msg"
    ELSE "none"

\* The background add_data_to_table gives the item of column col_index.
ItemBackground(col_index, data_item, msg) ==
    IF col_index = ColumnIndex("Result")
    THEN IF msg THEN "msg"
         ELSE IF data_item = Pass THEN "pass"
         ELSE IF data_item = Fail THEN "fail"
         ELSE "none"
    ELSE IF col_index = ColumnIndex("Notes") /\ msg THEN "msg"
    ELSE "none"

\* The row add_data_to_table builds: one item per field, a field past the
\* last column is dropped by setItem, a column without a field has no item.
NewRow(row_data) ==
    [c \in 1..Len(columns) |->
        IF c <= Len(row_data)
        THEN Item(row_data[c], ItemBackground(c, row_data[c], is_msg_row(row_data)))
        ELSE NoItem]

\* Whether row a goes before row b when column 0 is sorted in `order`.
Before(a, b, order) ==
    IF order = "asc" THEN LexLess(a[1].text, b[1].text)
    ELSE LexLess(b[1].text, a[1].text)

InsertRow(rows, r, order) ==
    LET later == {i \in 1..Len(rows) : Before(r, rows[i], order)}
        at == IF later = {} THEN Len(rows) + 1
              ELSE CHOOSE i \in later : \A j \in later : i <= j
    IN SubSeq(rows, 1, at - 1) \o <<r>> \o SubSeq(rows, at, Len(rows))

RECURSIVE StableSort(_, _)
StableSort(rows, order) ==
    IF rows = << >> THEN << >>
    ELSE InsertRow(StableSort(SubSeq(rows, 1, Len(rows) - 1), order),
                   rows[Len(rows)], order)

\* The table's sort on column 0: the rows with an item there are sorted
\* stably, the rows without one follow in their order.
SortRows(rows, order) ==
    StableSort(SelectSeq(rows, LAMBDA r : r[1].has), order)
        \o SelectSeq(rows, LAMBDA r : ~r[1].has)

\* add_data_to_table: the row is appended with sorting off, and the closing
\* setSortingEnabled(True) sorts the table by the header's indicator.
add_data_to_table(rows, row_data, order) ==
    SortRows(Append(rows, NewRow(row_data)), order)

\* A slip: the table is not emptied before the rows are added.
KeptRows(rows) == rows

\* clearContents() and setRowCount(0).
ClearedRows(rows) == << >>

----------------------------------------------------------------------------
(* The texts of the detail pane and of the status bar *)

Text(kind, file, num, total, text) ==
    [kind |-> kind, file |-> file, num |-> num, total |-> total, text |-> text]

VersionText == Text("version", "", 0, 0, << >>)                \* line 75
WelcomeText == Text("welcome", "", 0, 0, << >>)                \* line 140
LoadingText(file) == Text("loading", file, 0, 0, << >>)        \* lines 320-323
EmptyText == Text("empty", "", 0, 0, << >>)                    \* line 339
ImportedText(file, total) == Text("imported", file, 0, total, << >>)
TotalText(file, total) == Text("total", file, 0, total, << >>)
\* "ERROR! File: ..." in the pane; error_msg in the status bar, which names
\* no file.  num is reader.line_num, which only the csv.Error message holds.
ErrorText(file, err, num) == Text(err, file, num, 0, << >>)
MessageText(notes) == Text("message", "", 0, 0, notes)         \* line 290
NotesText(notes) == Text("notes", "", 0, 0, notes)             \* line 300
SelectedText(file, num, total) == Text("selected", file, num, total, << >>)
InstrumentText(id) == Text("instrument", "", 0, 0, id)         \* line 204

ErrorKinds == {"csv_error", "not_found", "value_error", "exception"}

----------------------------------------------------------------------------
(* The CSV files an import can meet *)

TestA == <<"A">>
TestB == <<"B">>
Msg2  == <<"M", "s", "g", "2">>
Note  == <<"n">>

\* What csv.reader yields for a line: a list of fields (none for a blank
\* line), or an exception raised while the line is read.
Record(fields) == [kind |-> "record", fields |-> fields]
CsvErrorLine   == [kind |-> "csv_error", fields |-> << >>]
ValueErrorLine == [kind |-> "value_error", fields |-> << >>]

Records ==
    { Record(<<TestA, Pass, Note>>),
      Record(<<TestB, Fail, Note>>),
      Record(<<TestA, Msg, Note>>),
      Record(<<Msg, Pass, Note>>),
      Record(<<TestB, Msg2, Note>>),
      Record(<<TestA, Pass>>),
      Record(<< >>) }

Lines == Records \cup {CsvErrorLine, ValueErrorLine}

Files == UNION {[1..n -> Lines] : n \in 0..MaxRecords}

FileNames == {"log.csv"}

----------------------------------------------------------------------------
(* The state after MainWindow.__init__ *)

NoCmds == [connect |-> "unbound", id |-> "unbound", close |-> "unbound"]

\* The console after a function printed: select_inst prints its arguments;
\* what find_inst and __init__ print is not kept.
Printed(by, id, commands) == [by |-> by, inst_id |-> id, cmds |-> commands]

Init ==
    /\ data_table = << >>
    /\ sortingEnabled = TRUE
    /\ sortOrder = "desc"
    /\ selected = 0
    /\ inst_textbox = VersionText
    /\ status_bar = WelcomeText
    /\ csv_file_name = "None"
    /\ messages_count = 0
    /\ pc = "idle"
    /\ csv_file = << >>
    /\ reader = << >>
    /\ line_num = 0
    /\ import_outcome = "none"
    /\ resources = << >>
    /\ idx = 0
    /\ inst_list = << >>
    /\ faults = << >>
    /\ open_sessions = {}
    /\ inst_id = << >>
    /\ cmds = NoCmds
    /\ buttons = << >>
    /\ printed = Printed("__init__", << >>, NoCmds)
    /\ sent = {}

----------------------------------------------------------------------------
(* import_table_from_csv *)

\* open() raises before the table is touched: FileNotFoundError, or another
\* OSError, which the last handler takes.
ImportOpenFails(name, err) ==
    /\ pc = "idle"
    /\ csv_file_name' = name
    /\ inst_textbox' = ErrorText(name, err, 0)
    /\ status_bar' = ErrorText("", err, 0)
    /\ import_outcome' = "error"
    /\ csv_file' = << >>
    /\ reader' = << >>
    /\ UNCHANGED <<data_table, sortingEnabled, sortOrder, selected,
                   messages_count, line_num, pc, instVars>>

\* Lines 318-341: the file opens, the table and the pane are cleared and
\* sorting is switched off.  Emptying the table empties the selection.
ImportBegin(name, f) ==
    /\ pc = "idle"
    /\ csv_file_name' = name
    /\ status_bar' = LoadingText(name)
    /\ csv_file' = f
    /\ reader' = f
    /\ line_num' = 0
    /\ data_table' = ClearedRows(data_table)
    /\ selected' = 0
    /\ messages_count' = 0
    /\ inst_textbox' = EmptyText
    /\ sortingEnabled' = FALSE
    /\ import_outcome' = "loading"
    /\ pc' = "loading"
    /\ UNCHANGED <<sortOrder, instVars>>

\* Lines 342-343: the reader yields a record and add_data_to_table adds it.
ImportRow ==
    /\ pc = "loading"
    /\ reader # << >>
    /\ Head(reader).kind = "record"
    /\ line_num' = line_num + 1
    /\ reader' = Tail(reader)
    /\ data_table' = add_data_to_table(data_table, Head(reader).fields, sortOrder)
    /\ messages_count' = messages_count + MsgFields(Head(reader).fields)
    /\ sortingEnabled' = TRUE
    /\ UNCHANGED <<sortOrder, selected, inst_textbox, status_bar, csv_file_name,
                   csv_file, import_outcome, pc, instVars>>

\* Lines 359-366 and 377-385: the reader raises on the next line; the handler
\* sets the texts and touches nothing else.
ImportRowFails ==
    /\ pc = "loading"
    /\ reader # << >>
    /\ Head(reader).kind \in {"csv_error", "value_error"}
    /\ line_num' = line_num + 1
    /\ reader' = << >>
    /\ inst_textbox' = ErrorText(csv_file_name, Head(reader).kind,
                                 IF Head(reader).kind = "csv_error"
                                 THEN line_num + 1 ELSE 0)
    /\ status_bar' = ErrorText("", Head(reader).kind,
                               IF Head(reader).kind = "csv_error"
                               THEN line_num + 1 ELSE 0)
    /\ import_outcome' = "error"
    /\ pc' = "idle"
    /\ UNCHANGED <<data_table, sortingEnabled, sortOrder, selected,
                   csv_file_name, messages_count, csv_file, instVars>>

\* Lines 344-357: the reader is exhausted; sorting is switched on, which sorts
\* by the header's indicator, then sortItems sorts column 0 ascending.
ImportFinish ==
    /\ pc = "loading"
    /\ reader = << >>
    /\ sortingEnabled' = TRUE
    /\ data_table' = SortRows(SortRows(data_table, sortOrder), "asc")
    /\ sortOrder' = "asc"
    /\ inst_textbox' = ImportedText(csv_file_name, Len(data_table))
    /\ status_bar' = TotalText(csv_file_name, Len(data_table))
    /\ import_outcome' = "ok"
    /\ pc' = "idle"
    /\ UNCHANGED <<selected, csv_file_name, messages_count, csv_file, reader,
                   line_num, instVars>>

----------------------------------------------------------------------------
(* update_inst, the slot of the table's selectionChanged *)

\* What update_inst does for the selected row: it raises when the row has no
\* Notes or no Result item (item() is None), shows the message block and
\* returns when the Result text contains "Msg", and else shows the notes and
\* the record's number.
update_inst(rows, row, pane, status, file) ==
    LET packet == rows[row][ColumnIndex("Notes")]
        dir    == rows[row][ColumnIndex("Result")]
    IN IF ~packet.has \/ ~dir.has
       THEN [raised |-> TRUE, pane |-> pane, status |-> status]
       ELSE IF Contains(dir.text, Msg)
       THEN [raised |-> FALSE, pane |-> MessageText(packet.text), status |-> status]
       ELSE [raised |-> FALSE, pane |-> NotesText(packet.text),
             status |-> SelectedText(file, row, Len(rows))]

\* The user selects row `row`.  An exception that leaves the slot is not
\* handled anywhere: the event thread stops.
SelectRow(row) ==
    /\ pc = "idle"
    /\ row \in 1..Len(data_table)
    /\ row # selected
    /\ selected' = row
    /\ LET r == update_inst(data_table, row, inst_textbox, status_bar, csv_file_name)
       IN /\ inst_textbox' = r.pane
          /\ status_bar' = r.status
          /\ pc' = IF r.raised THEN "crashed" ELSE "idle"
    /\ UNCHANGED <<data_table, sortingEnabled, sortOrder, csv_file_name,
                   messages_count, csv_file, reader, line_num, import_outcome,
                   instVars>>

\* The selection becomes empty: update_inst finds no selected row.
ClearSelection ==
    /\ pc = "idle"
    /\ selected # 0
    /\ selected' = 0
    /\ UNCHANGED <<data_table, sortingEnabled, sortOrder, inst_textbox, status_bar,
                   csv_file_name, messages_count, csv_file, reader, line_num,
                   import_outcome, pc, instVars>>

\* add_data_to_table called on its own, with any three fields.
Fields == {Pass, Fail, Msg, Msg2, Note}

AddData(row_data) ==
    /\ pc = "idle"
    /\ Len(data_table) < MaxAdds
    /\ data_table' = add_data_to_table(data_table, row_data, sortOrder)
    /\ messages_count' = messages_count + MsgFields(row_data)
    /\ sortingEnabled' = TRUE
    /\ UNCHANGED <<sortOrder, selected, inst_textbox, status_bar, csv_file_name,
                   csv_file, reader, line_num, import_outcome, pc, instVars>>

NextAdd == \E row_data \in [1..3 -> Fields] : AddData(row_data)

SpecAdd == Init /\ [][NextAdd]_vars

NextTable ==
    \/ \E name \in FileNames, err \in {"not_found", "exception"} :
           ImportOpenFails(name, err)
    \/ \E name \in FileNames, f \in Files : ImportBegin(name, f)
    \/ ImportRow
    \/ ImportRowFails
    \/ ImportFinish
    \/ \E row \in 1..MaxRecords : SelectRow(row)
    \/ ClearSelection

SpecTable == Init /\ [][NextTable]_vars

----------------------------------------------------------------------------
(* The instruments and configuration files a scan can meet *)

Addresses == {"GPIB1", "GPIB2", "USB1", "USB2", "LAN1", "LAN2"}

\* The answer of the instrument at an address to "*IDN?".
Idn(addr) ==
    CASE addr = "GPIB1" -> <<"T", ",", "A", ",", "1", ",", "V", "\n">>
      [] addr = "GPIB2" -> <<"T", ":", ",", "B", " ", "1", ",", "2", ",", "V", "\n">>
      [] addr = "USB1"  -> <<"T", "\n">>
      [] addr = "USB2"  -> <<"T", ",", "A", ",", "2", "\n">>
      [] addr = "LAN1"  -> <<"T", ",", "M", ",", "1", ",", "V", "\n">>
      [] addr = "LAN2"  -> <<"T", ",", "F", ",", "1", ",", "V", "\n">>

JsonSuffix == <<".", "j", "s", "o", "n">>

\* The files of the working directory: two hold the three commands, one is
\* not JSON.
ConfigFiles ==
    { <<"T", "_", "A">> \o JsonSuffix,
      <<"T", "_", "B", "_", "1">> \o JsonSuffix,
      <<"T", "_", "F">> \o JsonSuffix }

ConfigExists(json_filename) == json_filename \in ConfigFiles

ConfigValid(json_filename) == json_filename # <<"T", "_", "F">> \o JsonSuffix

\* data.get("connect"), data.get("id"), data.get("close")
ConfigContent(json_filename) ==
    IF json_filename = <<"T", "_", "A">> \o JsonSuffix
    THEN [connect |-> "OPEN A", id |-> "ID A", close |-> "CLOSE A"]
    ELSE [connect |-> "OPEN B", id |-> "ID B", close |-> "CLOSE B"]

\* Where the transport fails while an address is probed.
Faults == {"none", "open", "query", "write", "close"}

\* The tuples list_resources can return: distinct addresses in some order.
ResourceLists ==
    {l \in UNION {[1..n -> Addresses] : n \in 0..MaxResources} :
        \A i, j \in 1..Len(l) : i # j => l[i] # l[j]}

----------------------------------------------------------------------------
(* find_inst and select_inst *)

\* One iteration of find_inst's loop for `item`, the locals being `loc`: what
\* the locals are after it, whether a session was opened and close() never
\* called on it, what was written, the control created and how the iteration
\* ended.
find_inst_body(item, fault, loc) ==
    LET opened  == fault # "open"
        queried == opened /\ fault # "query"
        id1     == IF queried THEN Strip(Idn(item)) ELSE loc.inst_id
        written == queried /\ fault # "write"
        closed  == written /\ fault # "close"
        fn_inst == Replace(Replace(id1, " ", <<"_">>), ":", << >>)
        fn_inst_list == Split(fn_inst, ",")
        named   == closed /\ Len(fn_inst_list) >= 2
        json_filename == fn_inst_list[1] \o <<"_">> \o fn_inst_list[2] \o JsonSuffix
        exists  == named /\ ConfigExists(json_filename)
        loaded  == exists /\ ConfigValid(json_filename)
        cmds1   == IF loaded THEN ConfigContent(json_filename) ELSE loc.cmds
        list1   == IF loaded THEN Split(id1, ",") ELSE loc.inst_list
        made    == loaded /\ Len(list1) >= 4
    IN [inst_id |-> id1,
        cmds |-> cmds1,
        inst_list |-> list1,
        session_open |-> opened /\ ~written,
        written |-> (IF opened THEN {<<item, "*IDN?">>} ELSE {})
                      \cup (IF written THEN {<<item, ":KEY:FORCe">>} ELSE {}),
        button |-> IF made
                   THEN <<[label |-> SubSeq(list1, 1, 4), inst |-> item]>>
                   ELSE << >>,
        outcome |-> IF made THEN "control"
                    ELSE IF named /\ ~exists THEN "no_config"
                    ELSE "exception"]

\* A slip: the try statement around the loop, so that an exception ends it.
NextIndexAborting(i, n, outcome) == IF outcome = "exception" THEN n + 1 ELSE i + 1

\* The loop goes on with the next address however the iteration ended.
NextIndex(i, n, outcome) == i + 1

\* Lines 143-152: the old controls are removed and the resources listed.  The
\* call has fresh locals.
FindInstBegin(list) ==
    /\ pc = "idle"
    /\ buttons' = << >>
    /\ resources' = list
    /\ inst_list' = list
    /\ idx' = 1
    /\ faults' = << >>
    /\ open_sessions' = {}
    /\ sent' = {}
    /\ inst_id' = << >>
    /\ cmds' = NoCmds
    /\ pc' = "scanning"
    /\ UNCHANGED <<tableVars, status_bar, printed>>

\* Lines 153-195: one iteration of the loop.
FindInstProbe(fault) ==
    /\ pc = "scanning"
    /\ idx <= Len(resources)
    /\ LET r == find_inst_body(resources[idx], fault,
                               [inst_id |-> inst_id, cmds |-> cmds,
                                inst_list |-> inst_list])
       IN /\ inst_id' = r.inst_id
          /\ cmds' = r.cmds
          /\ inst_list' = r.inst_list
          /\ open_sessions' = IF r.session_open
                              THEN open_sessions \cup {resources[idx]}
                              ELSE open_sessions
          /\ sent' = sent \cup r.written
          /\ buttons' = buttons \o r.button
          /\ idx' = NextIndex(idx, Len(resources), r.outcome)
    /\ faults' = Append(faults, fault)
    /\ printed' = Printed("find_inst", << >>, NoCmds)
    /\ UNCHANGED <<tableVars, status_bar, resources, pc>>

\* The loop is over and find_inst returns.
FindInstReturn ==
    /\ pc = "scanning"
    /\ idx > Len(resources)
    /\ pc' = "idle"
    /\ UNCHANGED <<tableVars, status_bar, printed, resources, idx, inst_list,
                   faults, open_sessions, inst_id, cmds, buttons, sent>>

\* The arguments the lambda of line 187 passes when a control is clicked:
\* inst_id, connect_cmd, id_cmd and close_cmd are free variables of the
\* lambda, read from find_inst's locals when the click happens.
LambdaArgs(button, id, commands) == [inst_id |-> id, cmds |-> commands]

\* select_inst(inst_id, connect_cmd, id_cmd, close_cmd)
select_inst(args) ==
    /\ printed' = Printed("select_inst", args.inst_id, args.cmds)
    /\ status_bar' = InstrumentText(args.inst_id)

\* The control b is clicked: select_inst prints and shows its arguments.
ClickInst(b) ==
    /\ pc = "idle"
    /\ b \in 1..Len(buttons)
    /\ select_inst(LambdaArgs(buttons[b], inst_id, cmds))
    /\ UNCHANGED <<tableVars, pc, resources, idx, inst_list, faults,
                   open_sessions, inst_id, cmds, buttons, sent>>

NextInst ==
    \/ \E list \in ResourceLists : FindInstBegin(list)
    \/ \E fault \in Faults : FindInstProbe(fault)
    \/ FindInstReturn
    \/ \E b \in 1..MaxResources : ClickInst(b)

SpecInst == Init /\ [][NextInst]_vars

Next == NextTable \/ NextInst

Spec == Init /\ [][Next]_vars

----------------------------------------------------------------------------
(* The claims *)

\* C1: when import_table_from_csv has completed successfully on a file of N
\* records, the table holds exactly N rows, whatever it held before the
\* import.
C1_ImportReplacesRows ==
    (pc = "idle" /\ import_outcome = "ok") => Len(data_table) = Len(csv_file)

\* An import of a two-record file has completed successfully.
C1_Witness ==
    /\ pc = "idle"
    /\ import_outcome = "ok"
    /\ Len(csv_file) = 2
    /\ Len(data_table) = 2

ImportFails ==
    \/ ImportRowFails
    \/ \E name \in FileNames, err \in {"not_found", "exception"} :
           ImportOpenFails(name, err)

\* C2: whenever import_table_from_csv fails, an error message is set in the
\* detail pane and in the status bar and the table is left with zero rows;
\* for malformed CSV the message names the failing line.
C2_FailedImportClearsTable ==
    [][ImportFails =>
          /\ inst_textbox'.kind \in ErrorKinds
          /\ status_bar'.kind \in ErrorKinds
          /\ (status_bar'.kind = "csv_error" => status_bar'.num = line_num')
          /\ Len(data_table') = 0]_vars

\* The addresses whose probe raises nothing when the transport does not fail
\* and whose configuration file exists.
ControlExpected == {"GPIB1", "GPIB2"}

\* C3: an exception raised while one address is probed skips only that
\* instrument: when the scan returns every address of the list has been
\* probed, and the controls are those of the instruments probed without an
\* exception whose configuration file exists, in the order of the list.
C3_ScanIsolatesFailures ==
    (pc = "idle") =>
        /\ Len(faults) = Len(resources)
        /\ LET expected == {i \in 1..Len(resources) :
                               faults[i] = "none" /\ resources[i] \in ControlExpected}
           IN /\ Len(buttons) = Cardinality(expected)
              /\ \A i \in expected : \E b \in 1..Len(buttons) :
                     buttons[b].inst = resources[i]
              /\ \A b, c \in 1..Len(buttons) : b < c =>
                     \E i, j \in expected :
                        /\ i < j
                        /\ buttons[b].inst = resources[i]
                        /\ buttons[c].inst = resources[j]

\* A scan of two addresses has returned: the probe of the first raised, the
\* second has its control.
C3_Witness ==
    /\ pc = "idle"
    /\ Len(resources) = 2
    /\ faults[1] # "none"
    /\ faults[2] = "none"
    /\ Len(buttons) = 1
    /\ buttons[1].inst = resources[2]

\* The descriptor of the instrument at an address: its stripped identity and
\* the commands of its configuration file.
OwnDescriptor(addr) ==
    CASE addr = "GPIB1" ->
            [inst_id |-> <<"T", ",", "A", ",", "1", ",", "V">>,
             cmds |-> [connect |-> "OPEN A", id |-> "ID A", close |-> "CLOSE A"]]
      [] addr = "GPIB2" ->
            [inst_id |-> <<"T", ":", ",", "B", " ", "1", ",", "2", ",", "V">>,
             cmds |-> [connect |-> "OPEN B", id |-> "ID B", close |-> "CLOSE B"]]

\* C4: clicking the control created for instrument X reports X's own
\* descriptor in the log and in the status bar, whatever was probed after X
\* in the scan, and sends no command to any instrument.
C4_ClickReportsOwnDescriptor ==
    [][\A b \in 1..Len(buttons) :
          ClickInst(b) =>
             /\ printed'.by = "select_inst"
             /\ printed'.inst_id = OwnDescriptor(buttons[b].inst).inst_id
             /\ printed'.cmds = OwnDescriptor(buttons[b].inst).cmds
             /\ status_bar' = InstrumentText(OwnDescriptor(buttons[b].inst).inst_id)
             /\ sent' = sent]_vars

\* A row is a message row for add_data_to_table when a field of it is "Msg".
MessageRow(r) == \E c \in 1..Len(columns) : r[c].has /\ r[c].text = Msg

\* C5: selecting a row shows the "Message:" block in the detail pane if and
\* only if the row is a message row as add_data_to_table classifies it, and
\* selecting any other row shows its Notes field verbatim.
C5_MessageBlockIffMessageRow ==
    [][\A row \in 1..Len(data_table) :
          (SelectRow(row) /\ pc' = "idle") =>
             IF MessageRow(data_table[row])
             THEN inst_textbox' = MessageText(data_table[row][3].text)
             ELSE inst_textbox' = NotesText(data_table[row][3].text)]_vars

\* C6: for every row of three fields add_data_to_table has added: if a field
\* is "Msg" the Result and Notes cells have the message highlight whatever
\* the Result is; otherwise the Result cell has the Pass highlight exactly
\* when it is "Pass", the Fail highlight exactly when it is "Fail", none for
\* another value, and the Notes cell has none.
C6_Highlights ==
    \A i \in 1..Len(data_table) :
        LET r == data_table[i]
        IN (r[1].has /\ r[2].has /\ r[3].has) =>
              IF r[1].text = Msg \/ r[2].text = Msg \/ r[3].text = Msg
              THEN r[2].bg = "msg" /\ r[3].bg = "msg"
              ELSE /\ r[2].bg = (CASE r[2].text = Pass -> "pass"
                                   [] r[2].text = Fail -> "fail"
                                   [] OTHER -> "none")
                   /\ r[3].bg = "none"

\* A row whose Test is "Msg" and whose Result is "Pass" has been added.
C6_Witness ==
    \E i \in 1..Len(data_table) :
        /\ data_table[i][1].text = Msg
        /\ data_table[i][2].text = Pass
        /\ data_table[i][2].bg = "msg"

\* C7: every connection find_inst opens is closed in the same call: when the
\* scan has returned no connection opened during it is still open.
C7_SessionsClosedOnReturn == (pc = "idle") => open_sessions = {}

\* C8: during the row loop of an import sorting is disabled from before the
\* first row until after the last one, and it is enabled again once the load
\* is over.
C8_SortingOffDuringLoad ==
    /\ (pc = "loading") => ~sortingEnabled
    /\ (pc = "idle" /\ import_outcome = "ok") => sortingEnabled

\* C9: on every selection change that leaves a row selected, message rows
\* included, update_inst sets the status bar to the "selected record i of
\* total" text, i the row's position from 1 and total the row count.
C9_StatusShowsSelectedRecord ==
    [][\A row \in 1..Len(data_table) :
          (SelectRow(row) /\ pc' = "idle") =>
             status_bar' = SelectedText(csv_file_name, row, Len(data_table))]_vars

\* C10: for every row present after an import that reported no error,
\* update_inst finds a Result and a Notes cell when the row is selected and
\* completes without raising an unhandled error.
C10_SelectionNeverRaises ==
    [][\A row \in 1..Len(data_table) :
          (import_outcome = "ok" /\ SelectRow(row)) =>
             /\ data_table[row][2].has
             /\ data_table[row][3].has
             /\ pc' = "idle"]_vars

====
